---- MODULE Spec2Model ----
(***************************************************************************)
(* A model of src/src/runtime.rs of scheme-rs: the compilation scheduler   *)
(* (init_compiler, compile_cps, compilation_task) and the runtime          *)
(* functions that generated code calls on reference-counted values.        *)
(***************************************************************************)
EXTENDS Integers, Sequences, FiniteSets, TLC

\* ------------------------------------------------------------------------
\* Bounds of the model and constants of the program
\* ------------------------------------------------------------------------

\* runtime.rs:25, the capacity of the mpsc channel
MAX_COMPILATION_TASKS == 5

\* calls to compile_cps beyond the capacity of the channel, so that a
\* submitter finds the channel full
ExtraRequests == 1

NumRequests == MAX_COMPILATION_TASKS + ExtraRequests

\* calls that pass a compilation unit on which into_closure fails
MaxMalformed == 1

\* threads that call init_compiler, once each
NumInitThreads == 2

\* callers that may stop waiting for their result: those of the first
\* MaxAbandoned calls of compile_cps
MaxAbandoned == 1

\* runtime.rs:44, the Sender kept in the static COMPILATION_QUEUE: it is
\* never dropped, so the channel always has one sender
StaticSenders == 1

\* values the generated code allocates
MaxVals == 3

\* closures the generated code makes
MaxClosures == 1

\* Applications the generated code makes
MaxApps == 1

\* handle clones made of one value; the calling code stops cloning once a
\* value has been cloned that often
MaxClones == 1

\* length of the pointer array passed to drop_values
MaxDrop == 2

Requests == 1..NumRequests

Addrs == 1..MaxVals

Closures == 1..MaxClosures

\* the native entry point generated code passes to make_closure
FnPtrs == {"entry_a"}

\* the integer generated code boxes
I64s == {42}

InitThreads == 1..NumInitThreads

\* ------------------------------------------------------------------------
\* State of the scheduler
\* ------------------------------------------------------------------------
VARIABLES
    queueOnce,   \* COMPILATION_QUEUE: "uninit" or "done"
    queuesMade,  \* how many CompilationBuffers CompilationBuffer::default built
    rxSlot,      \* compilation_buffer_rx: "Some" or "None" (taken)
    permits,     \* free slots of the mpsc channel (its semaphore)
    sendWaiters, \* senders suspended in send().await, oldest first
    queue,       \* the CompilationTasks in the channel, oldest first
    taskOnce,    \* COMPILATION_TASK: "uninit", "running" or "done"
    initPc,      \* per init thread: "idle", "spawning", "blocked", "returned"
    workers,     \* one record per spawned compilation_task
    ncalls,      \* calls of compile_cps made so far; the k-th call is request k
    pc,          \* per request: position of its compile_cps call
    unit,        \* per request: the Cps it submitted
    oneshot,     \* per request: its completion channel
    result,      \* per request: what compile_cps returned
    fired,       \* per request: number of sends on its completion_tx
    dequeues,    \* per request: number of times blocking_recv returned its task
    pending,     \* requests admitted to the channel and not yet answered, oldest first
    contexts,    \* how many LLVM contexts (with module, engine, builder) were created
    installs,    \* how many times install_runtime has run
    symtab       \* the functions added to the module and mapped to native code

svars == <<queueOnce, queuesMade, rxSlot, permits, sendWaiters, queue, taskOnce,
           initPc, workers, ncalls, pc, unit, oneshot, result, fired,
           dequeues, pending, contexts, installs, symtab>>

\* ------------------------------------------------------------------------
\* State of the heap and of the code that calls the runtime functions
\* ------------------------------------------------------------------------
VARIABLES
    heap,    \* the GcInner<Value> cells: per address rc, live, content, frees,
             \* dropped (handles of the cell that went out of scope);
             \* the GcInner<Closure> cells: per closure crc, clive, env, globals,
             \* fn_ptr; nclos, the closures allocated so far; and ub
    nalloc,  \* cells allocated so far; the k-th allocation is address k
    owned,   \* per address: raw pointers the calling code holds as its own
    clones,  \* per address: handle clones made
    pre,     \* the last runtime call: its name, arguments, result and the heap before it
    apps,    \* the Applications returned to the generated code, in the order made
    aborted  \* the process was aborted by a panic in a runtime function

hvars == <<heap, nalloc, owned, clones, pre, apps, aborted>>

vars == <<svars, hvars>>

NoUnit == [src |-> 0, wellFormed |-> TRUE]

NoTask == [completion_tx |-> 0, compilation_unit |-> NoUnit]

Empty == [kind |-> "Empty", of |-> 0]

\* a oneshot channel whose Receiver has been dropped
Closed == [kind |-> "Closed", of |-> 0]

\* a compilation_task that was just spawned
NewWorker == [pc |-> "start", task |-> NoTask, ctx |-> 0]

NumMalformed == Cardinality({r \in Requests : ~unit[r].wellFormed})

\* the Cps values a caller may pass: each call's unit is its own object, and
\* it is either one that into_closure can lower or one on which the builder fails
Units(r) ==
    {[src |-> r, wellFormed |-> b] :
        b \in IF NumMalformed < MaxMalformed THEN BOOLEAN ELSE {TRUE}}

\* ------------------------------------------------------------------------
\* Library operations the scheduler is built from
\* ------------------------------------------------------------------------

\* a check of the cell followed by a separate set, with no lock in between
OnceOutcomeRacy(st) == IF st = "done" THEN "get" ELSE "init"

\* OnceLock::get_or_init, as seen by a caller that finds the cell in `st`:
\* the first caller runs the initializer, a caller that arrives while it
\* runs blocks until it is done, a later caller gets the stored value
OnceOutcome(st) ==
    IF st = "uninit" THEN "init" ELSE IF st = "running" THEN "block" ELSE "get"

\* Option::take on compilation_buffer_rx
TakeRx(slot) == "None"

\* the oldest message is read and left in the channel
AfterRecvKeepsHead(q) == q

\* mpsc::Receiver::blocking_recv: what is left in the channel after the
\* oldest message has been handed to the caller
AfterRecv(q) == Tail(q)

\* the message goes to the front
EnqueueFront(q, task) == <<task>> \o q

\* mpsc::Sender::send, once it holds a permit: the message goes to the back
Enqueue(q, task) == Append(q, task)

\* an unbounded channel: a sender never waits
CanAcquireAlways(free) == TRUE

\* mpsc::Sender::send polls the semaphore: a free permit is taken at once,
\* otherwise the sender is queued and suspends
CanAcquire(free) == free > 0

\* Cps::into_closure: a Closure for the unit, or the builder's error
IntoClosure(u) ==
    IF u.wellFormed THEN [kind |-> "Ok", of |-> u.src]
                    ELSE [kind |-> "Err", of |-> u.src]

\* the sender is dropped and nothing is sent
OneshotSendNothing(os, tx, value) == os

\* oneshot::Sender::send(value) on the channel of request tx: the value is
\* stored for the receiver; when the Receiver is gone send returns
\* Err(value) and nothing is stored
OneshotSend(os, tx, value) ==
    IF os[tx] = Closed THEN os ELSE [os EXCEPT ![tx] = value]

\* Result::unwrap on what send returned
SendUnwrapPanics(os, tx) == os[tx] = Closed

\* `let _ =` on what send returned, line 98: an Err is ignored
SendResultPanics(os, tx) == FALSE

\* try_recv: an empty channel ends the loop
RecvOutcomeTryRecv(q, senders) ==
    IF q # <<>> THEN "task" ELSE "closed"

\* mpsc::Receiver::blocking_recv: the oldest task if there is one; on an
\* empty channel the caller waits while a Sender exists, and gets None once
\* every Sender is dropped
RecvOutcome(q, senders) ==
    IF q # <<>> THEN "task" ELSE IF senders > 0 THEN "wait" ELSE "closed"

\* the completion channel the worker answers on: the one that came with the task
ReplyTo(task) == task.completion_tx

\* ------------------------------------------------------------------------
\* init_compiler (runtime.rs:47-49)
\* ------------------------------------------------------------------------

JitUnchanged == UNCHANGED <<contexts, installs, symtab>>

SchedGhostUnchanged ==
    UNCHANGED <<fired, dequeues, pending>> /\ JitUnchanged /\ UNCHANGED hvars

SubmitUnchanged == UNCHANGED <<ncalls, pc, unit, oneshot, result>>

ChannelUnchanged == UNCHANGED <<queueOnce, queuesMade, rxSlot, permits, sendWaiters, queue>>

\* a thread calls init_compiler and reaches COMPILATION_TASK.get_or_init
InitCompilerCall(t) ==
    /\ initPc[t] = "idle"
    /\ \/ /\ OnceOutcome(taskOnce) = "init"
          /\ taskOnce' = "running"
          /\ initPc' = [initPc EXCEPT ![t] = "spawning"]
       \/ /\ OnceOutcome(taskOnce) = "block"
          /\ initPc' = [initPc EXCEPT ![t] = "blocked"]
          /\ UNCHANGED taskOnce
       \/ /\ OnceOutcome(taskOnce) = "get"
          /\ initPc' = [initPc EXCEPT ![t] = "returned"]
          /\ UNCHANGED taskOnce
    /\ UNCHANGED workers
    /\ ChannelUnchanged /\ SubmitUnchanged /\ SchedGhostUnchanged

\* the initializer closure: tokio::task::spawn_blocking(compilation_task);
\* the JoinHandle is stored and the call returns
InitCompilerSpawn(t) ==
    /\ initPc[t] = "spawning"
    /\ workers' = Append(workers, NewWorker)
    /\ taskOnce' = "done"
    /\ initPc' = [initPc EXCEPT ![t] = "returned"]
    /\ ChannelUnchanged /\ SubmitUnchanged /\ SchedGhostUnchanged

\* a caller that waited for the initializer returns
InitCompilerResume(t) ==
    /\ initPc[t] = "blocked"
    /\ taskOnce = "done"
    /\ initPc' = [initPc EXCEPT ![t] = "returned"]
    /\ UNCHANGED <<taskOnce, workers>>
    /\ ChannelUnchanged /\ SubmitUnchanged /\ SchedGhostUnchanged

\* ------------------------------------------------------------------------
\* compile_cps (runtime.rs:51-65)
\* ------------------------------------------------------------------------

\* a CompilationBuffer is built at each use
QueueBuiltOnEachUse ==
    /\ queueOnce' = "done"
    /\ queuesMade' = queuesMade + 1

\* COMPILATION_QUEUE.get_or_init(CompilationBuffer::default): the first
\* caller builds the channel with MAX_COMPILATION_TASKS free slots
QueueGetOrInit ==
    IF OnceOutcome(queueOnce) = "init"
    THEN /\ queueOnce' = "done"
         /\ queuesMade' = queuesMade + 1
    ELSE UNCHANGED <<queueOnce, queuesMade>>

\* the call up to its first suspension: the oneshot channel and the task are
\* made, the queue is fetched, and send() polls for a slot
CompileCpsCall(r, u) ==
    /\ r = ncalls + 1
    /\ pc[r] = "idle"
    /\ ncalls' = r
    /\ unit' = [unit EXCEPT ![r] = u]
    /\ QueueGetOrInit
    /\ IF CanAcquire(permits)
       THEN /\ permits' = permits - 1
            /\ pc' = [pc EXCEPT ![r] = "permit"]
            /\ UNCHANGED sendWaiters
       ELSE /\ sendWaiters' = Append(sendWaiters, r)
            /\ pc' = [pc EXCEPT ![r] = "blocked"]
            /\ UNCHANGED permits
    /\ UNCHANGED <<rxSlot, queue, oneshot, result>>
    /\ UNCHANGED <<taskOnce, initPc, workers>>
    /\ SchedGhostUnchanged

\* send() holds a slot and puts the task into the channel; the caller then
\* suspends on completion_rx
CompileCpsSend(r) ==
    /\ pc[r] = "permit"
    /\ queue' = Enqueue(queue, [completion_tx |-> r, compilation_unit |-> unit[r]])
    /\ pending' = Append(pending, r)
    /\ pc' = [pc EXCEPT ![r] = "await"]
    /\ UNCHANGED <<queueOnce, queuesMade, rxSlot, permits, sendWaiters>>
    /\ UNCHANGED <<ncalls, unit, oneshot, result>>
    /\ UNCHANGED <<taskOnce, initPc, workers>>
    /\ UNCHANGED <<fired, dequeues>>
    /\ JitUnchanged
    /\ UNCHANGED hvars

\* completion_rx.await.unwrap(): the value sent by the worker is returned
CompileCpsReturn(r) ==
    /\ pc[r] = "await"
    /\ oneshot[r] # Empty
    /\ result' = [result EXCEPT ![r] = oneshot[r]]
    /\ pc' = [pc EXCEPT ![r] = "done"]
    /\ UNCHANGED <<ncalls, unit, oneshot>>
    /\ ChannelUnchanged
    /\ UNCHANGED <<taskOnce, initPc, workers>>
    /\ SchedGhostUnchanged

\* ------------------------------------------------------------------------
\* install_runtime (runtime.rs:102-171) and the native functions it maps
\* ------------------------------------------------------------------------

\* one call of module.add_function(name, sig, None) followed by
\* ee.add_global_mapping(&f, target as usize)
Registration(name, params, ret, target) ==
    [name |-> name, params |-> params, ret |-> ret, target |-> target]

\* the eight registrations of install_runtime, with the LLVM types of
\* lines 103-107
InstallRuntime ==
    { Registration("alloc_undef_val", <<>>, "ptr", "alloc_undef_val"),
      Registration("drop_values", <<"ptr", "i32">>, "void", "drop_values"),
      Registration("i64_to_number", <<"i64">>, "ptr", "i64_to_number"),
      Registration("make_application", <<"ptr", "ptr", "i32">>, "ptr", "make_application"),
      Registration("make_return_values", <<"ptr", "ptr", "i32">>, "ptr", "make_return_values"),
      Registration("truthy", <<"ptr">>, "bool", "truthy"),
      Registration("store", <<"ptr", "ptr">>, "void", "store"),
      Registration("make_closure", <<"ptr", "i32", "ptr", "i32", "ptr">>, "ptr", "make_closure") }

\* the declarations of the native functions, lines 174-245: the Rust types
\* of the parameters, in order, and of the result
NativeFn(f) ==
    CASE f = "alloc_undef_val" ->
           [params |-> <<>>, ret |-> "*mut GcInner<Value>"]
      [] f = "drop_values" ->
           [params |-> <<"*const *mut GcInner<Value>", "u32">>, ret |-> "()"]
      [] f = "i64_to_number" ->
           [params |-> <<"i64">>, ret |-> "*mut GcInner<Value>"]
      [] f = "make_application" ->
           [params |-> <<"*mut GcInner<Value>", "*const *mut GcInner<Value>", "u32">>,
            ret |-> "*mut Application"]
      [] f = "make_return_values" ->
           [params |-> <<"*const *mut GcInner<Value>", "u32">>, ret |-> "*mut Application"]
      [] f = "truthy" ->
           [params |-> <<"*mut GcInner<Value>">>, ret |-> "bool"]
      [] f = "store" ->
           [params |-> <<"*mut GcInner<Value>", "*mut GcInner<Value>">>, ret |-> "()"]
      [] f = "make_closure" ->
           [params |-> <<"*const *mut GcInner<Value>", "u32",
                         "*const *mut GcInner<Value>", "u32", "SyncFuncPtr">>,
            ret |-> "*mut GcInner<Value>"]

\* how a Rust type is passed in the C calling convention, as an LLVM type:
\* every pointer, a function pointer included, is a ptr; u32 is a 32-bit
\* integer; () is no result
AbiKind(ty) ==
    CASE ty = "u32" -> "i32"
      [] ty = "i64" -> "i64"
      [] ty = "bool" -> "bool"
      [] ty = "()" -> "void"
      [] OTHER -> "ptr"

\* the signature under which a native function has to be called
NativeSignature(f) ==
    [params |-> [i \in DOMAIN NativeFn(f).params |-> AbiKind(NativeFn(f).params[i])],
     ret |-> AbiKind(NativeFn(f).ret)]

\* ------------------------------------------------------------------------
\* compilation_task (runtime.rs:67-100)
\* ------------------------------------------------------------------------

\* lines 68-74: the queue is fetched (built if nobody did), the mutex is
\* locked and the receiver is taken out of its Option; unwrap panics on None
WorkerTakeReceiver(w) ==
    /\ workers[w].pc = "start"
    /\ QueueGetOrInit
    /\ IF rxSlot = "Some"
       THEN workers' = [workers EXCEPT ![w].pc = "setup"]
       ELSE workers' = [workers EXCEPT ![w].pc = "panicked"]
    /\ rxSlot' = TakeRx(rxSlot)
    /\ UNCHANGED <<permits, sendWaiters, queue>>
    /\ UNCHANGED <<taskOnce, initPc>>
    /\ SubmitUnchanged /\ SchedGhostUnchanged

\* install_runtime is left out and the worker goes to its loop
WorkerSetupSkipsInstall(w) ==
    /\ workers[w].pc = "setup"
    /\ contexts' = contexts + 1
    /\ workers' = [workers EXCEPT ![w].pc = "recv", ![w].ctx = contexts + 1]
    /\ UNCHANGED <<installs, symtab>>
    /\ UNCHANGED <<taskOnce, initPc>>
    /\ UNCHANGED <<fired, dequeues, pending>>
    /\ ChannelUnchanged /\ SubmitUnchanged /\ UNCHANGED hvars

\* lines 81-86: the context, its module, the execution engine and the
\* builder are created as locals of the worker
WorkerSetup(w) ==
    /\ workers[w].pc = "setup"
    /\ contexts' = contexts + 1
    /\ workers' = [workers EXCEPT ![w].pc = "install", ![w].ctx = contexts + 1]
    /\ UNCHANGED <<installs, symtab>>
    /\ UNCHANGED <<taskOnce, initPc>>
    /\ UNCHANGED <<fired, dequeues, pending>>
    /\ ChannelUnchanged /\ SubmitUnchanged /\ UNCHANGED hvars

\* line 88: install_runtime(&context, &module, &execution_engine)
WorkerInstallRuntime(w) ==
    /\ workers[w].pc = "install"
    /\ symtab' = symtab \cup InstallRuntime
    /\ installs' = installs + 1
    /\ workers' = [workers EXCEPT ![w].pc = "recv"]
    /\ UNCHANGED contexts
    /\ UNCHANGED <<taskOnce, initPc>>
    /\ UNCHANGED <<fired, dequeues, pending>>
    /\ ChannelUnchanged /\ SubmitUnchanged /\ UNCHANGED hvars

\* line 90: blocking_recv returns the oldest task; its slot is free again and
\* goes to the sender that has waited longest, if one waits
WorkerRecv(w) ==
    /\ workers[w].pc = "recv"
    /\ RecvOutcome(queue, StaticSenders) # "wait"
    /\ IF RecvOutcome(queue, StaticSenders) = "closed"
       THEN \* None: the `while let` loop ends and compilation_task returns
            /\ workers' = [workers EXCEPT ![w].pc = "exited"]
            /\ UNCHANGED <<queue, dequeues, pc, sendWaiters, permits>>
       ELSE /\ workers' = [workers EXCEPT ![w].pc = "lowering", ![w].task = Head(queue)]
            /\ queue' = AfterRecv(queue)
            /\ dequeues' = [dequeues EXCEPT ![Head(queue).completion_tx] = @ + 1]
            /\ IF sendWaiters # <<>>
               THEN /\ pc' = [pc EXCEPT ![Head(sendWaiters)] = "permit"]
                    /\ sendWaiters' = Tail(sendWaiters)
                    /\ UNCHANGED permits
               ELSE /\ permits' = permits + 1
                    /\ UNCHANGED <<pc, sendWaiters>>
    /\ UNCHANGED <<queueOnce, queuesMade, rxSlot>>
    /\ UNCHANGED <<taskOnce, initPc>>
    /\ UNCHANGED <<ncalls, unit, oneshot, result>>
    /\ UNCHANGED <<fired, pending>>
    /\ JitUnchanged
    /\ UNCHANGED hvars

\* the worker sends an Ok outcome and leaves the loop on an Err one, as
\* `into_closure(..)?` or an unwrap in the loop body would
WorkerLowerStopsOnErr(w) ==
    /\ workers[w].pc = "lowering"
    /\ LET task == workers[w].task
           closure == IntoClosure(task.compilation_unit)
           tx == ReplyTo(task)
       IN  IF closure.kind = "Err"
           THEN /\ workers' = [workers EXCEPT ![w].pc = "exited", ![w].task = NoTask]
                /\ UNCHANGED <<oneshot, fired, pending>>
           ELSE /\ oneshot' = OneshotSend(oneshot, tx, closure)
                /\ fired' = [fired EXCEPT ![tx] = @ + 1]
                /\ pending' = SelectSeq(pending, LAMBDA x : x # tx)
                /\ workers' = [workers EXCEPT ![w].pc = "recv", ![w].task = NoTask]
    /\ UNCHANGED <<taskOnce, initPc>>
    /\ ChannelUnchanged
    /\ UNCHANGED <<ncalls, pc, unit, result>>
    /\ UNCHANGED dequeues
    /\ JitUnchanged
    /\ UNCHANGED hvars

\* a context, module, engine and builder are made for each unit
WorkerLowerFreshContext(w) ==
    /\ workers[w].pc = "lowering"
    /\ LET task == workers[w].task
           closure == IntoClosure(task.compilation_unit)
           tx == ReplyTo(task)
       IN  /\ oneshot' = OneshotSend(oneshot, tx, closure)
           /\ fired' = [fired EXCEPT ![tx] = @ + 1]
           /\ pending' = SelectSeq(pending, LAMBDA x : x # tx)
    /\ contexts' = contexts + 1
    /\ workers' = [workers EXCEPT ![w].pc = "recv", ![w].task = NoTask,
                                  ![w].ctx = contexts + 1]
    /\ UNCHANGED <<installs, symtab>>
    /\ UNCHANGED <<taskOnce, initPc>>
    /\ ChannelUnchanged
    /\ UNCHANGED <<ncalls, pc, unit, result>>
    /\ UNCHANGED dequeues
    /\ UNCHANGED hvars

\* lines 91-98: the unit is lowered in the worker's context and the
\* outcome, Ok or Err, is sent on the task's completion_tx; what send
\* returns is ignored and the loop goes back to blocking_recv
WorkerLower(w) ==
    /\ workers[w].pc = "lowering"
    /\ LET task == workers[w].task
           closure == IntoClosure(task.compilation_unit)
           tx == ReplyTo(task)
       IN  /\ oneshot' = OneshotSend(oneshot, tx, closure)
           /\ fired' = [fired EXCEPT ![tx] = @ + 1]
           /\ pending' = SelectSeq(pending, LAMBDA x : x # tx)
           /\ IF SendResultPanics(oneshot, tx)
              THEN workers' = [workers EXCEPT ![w].pc = "panicked", ![w].task = NoTask]
              ELSE workers' = [workers EXCEPT ![w].pc = "recv", ![w].task = NoTask]
    /\ UNCHANGED <<taskOnce, initPc>>
    /\ ChannelUnchanged
    /\ UNCHANGED <<ncalls, pc, unit, result>>
    /\ UNCHANGED dequeues
    /\ JitUnchanged
    /\ UNCHANGED hvars

\* the caller of compile_cps drops the future while it waits on
\* completion_rx: the Receiver of its oneshot channel is dropped
Abandon(r) ==
    /\ pc[r] = "await"
    /\ oneshot[r] = Empty
    /\ r <= MaxAbandoned
    /\ pc' = [pc EXCEPT ![r] = "abandoned"]
    /\ oneshot' = [oneshot EXCEPT ![r] = Closed]
    /\ UNCHANGED <<ncalls, unit, result>>
    /\ UNCHANGED <<taskOnce, initPc, workers>>
    /\ ChannelUnchanged /\ SchedGhostUnchanged

\* ------------------------------------------------------------------------
\* Values and heap handles (crate::value, crate::gc)
\* ------------------------------------------------------------------------

Undefined == [tag |-> "Undefined", n |-> 0]

Number(n) == [tag |-> "Number", n |-> n]

\* Value::Closure(gc): the handle of the closure cell numbered c
ClosureValue(c) == [tag |-> "Closure", n |-> c]

\* what a cell holds before it is allocated and after it is freed
NoValue == [tag |-> "None", n |-> 0]

\* Value::is_true: only the false sentinel is falsy
IsTrue(v) == v.tag # "False"

HeapInit ==
    /\ heap = [rc |-> [a \in Addrs |-> 0], live |-> [a \in Addrs |-> "none"],
               content |-> [a \in Addrs |-> NoValue], frees |-> [a \in Addrs |-> 0],
               dropped |-> [a \in Addrs |-> 0],
               crc |-> [c \in Closures |-> 0], clive |-> [c \in Closures |-> "none"],
               env |-> [c \in Closures |-> <<>>], globals |-> [c \in Closures |-> <<>>],
               fn_ptr |-> [c \in Closures |-> "null"], nclos |-> 0,
               ub |-> FALSE]
    /\ nalloc = 0
    /\ owned = [a \in Addrs |-> 0]
    /\ clones = [a \in Addrs |-> 0]
    /\ pre = [fn |-> "none", a |-> 0, b |-> 0, vals |-> <<>>, val |-> NoValue,
              ret |-> FALSE, heap |-> heap, globals |-> <<>>, fn_ptr |-> "null",
              napps |-> 0]
    /\ apps = <<>>
    /\ aborted = FALSE

\* Gc::new(value).into_raw(): a fresh cell with one reference
GcNew(h, a, v) ==
    [h EXCEPT !.rc[a] = 1, !.live[a] = "live", !.content[a] = v]

\* Gc::from_raw(ptr): a handle is made from the pointer; the count is not touched
GcFromRaw(h, a) == h

RECURSIVE GcDrop(_, _)
RECURSIVE ClosureDrop(_, _)
RECURSIVE DropHandles(_, _, _)

\* a Vec<Gc<Value>> going out of scope: its handles are dropped in order
DropHandles(h, vals, i) ==
    IF i > Len(vals) THEN h ELSE DropHandles(GcDrop(h, vals[i]), vals, i + 1)

\* a Gc<Closure> handle going out of scope: the count of the closure cell
\* goes down by one; at zero the cell is freed and the Closure in it is
\* dropped, and with it the handles of its environment and of its globals
ClosureDrop(h, c) ==
    IF h.clive[c] # "live"
    THEN [h EXCEPT !.crc[c] = @ - 1, !.ub = TRUE]
    ELSE IF h.crc[c] = 1
         THEN LET freed == [h EXCEPT !.crc[c] = 0, !.clive[c] = "freed"]
              IN  DropHandles(DropHandles(freed, h.env[c], 1), h.globals[c], 1)
         ELSE [h EXCEPT !.crc[c] = @ - 1]

\* a Value going out of scope: a Closure value holds a Gc<Closure> handle
ValueDrop(h, v) == IF v.tag = "Closure" THEN ClosureDrop(h, v.n) ELSE h

\* a handle made by from_raw going out of scope, and Gc::drop_raw: the count
\* goes down by one and the cell is freed when it reaches zero, the Value in
\* it being dropped. On a cell that is already freed this is a use after
\* free: the count is decremented in freed memory and the behaviour is
\* undefined from there on.
GcDrop(h, a) ==
    IF h.live[a] # "live"
    THEN [h EXCEPT !.rc[a] = @ - 1, !.dropped[a] = @ + 1, !.ub = TRUE]
    ELSE IF h.rc[a] = 1
         THEN ValueDrop([h EXCEPT !.rc[a] = 0, !.live[a] = "freed",
                                  !.content[a] = NoValue, !.frees[a] = @ + 1,
                                  !.dropped[a] = @ + 1],
                        h.content[a])
         ELSE [h EXCEPT !.rc[a] = @ - 1, !.dropped[a] = @ + 1]

\* per address: handles dropped, by drop_values, at the end of a call, or
\* with the closure that held them
drops == heap.dropped

\* Gc::clone: one more reference to the same cell
GcClone(h, a) ==
    IF h.live[a] # "live" THEN [h EXCEPT !.ub = TRUE] ELSE [h EXCEPT !.rc[a] = @ + 1]

\* Gc::clone on a Gc<Closure>
ClosureClone(h, c) ==
    IF h.clive[c] # "live" THEN [h EXCEPT !.ub = TRUE] ELSE [h EXCEPT !.crc[c] = @ + 1]

\* Value::clone: the clone of a Closure value holds a clone of its handle
ValueClone(h, v) == IF v.tag = "Closure" THEN ClosureClone(h, v.n) ELSE h

\* Gc::new(closure): a fresh closure cell with one reference
ClosureNew(h, c, env, globals, fn_ptr) ==
    [h EXCEPT !.crc[c] = 1, !.clive[c] = "live", !.env[c] = env,
              !.globals[c] = globals, !.fn_ptr[c] = fn_ptr, !.nclos = c]

\* handle.read(): the Value in the cell; reading a freed cell is undefined
GcRead(h, a) == h.content[a]

GcReadIsUb(h, a) == h.live[a] # "live"

\* *handle.write() = v: the Value in the cell is replaced and the Value that
\* was there is dropped; the cell stays
GcWrite(h, a, v) ==
    IF h.live[a] # "live" THEN [h EXCEPT !.ub = TRUE]
    ELSE ValueDrop([h EXCEPT !.content[a] = v], h.content[a])

\* ------------------------------------------------------------------------
\* The runtime functions (runtime.rs:173-237)
\* ------------------------------------------------------------------------

\* drop_values, lines 179-183: for i in 0..num_vals, Gc::drop_raw(vals[i])
RECURSIVE DropFrom(_, _, _)
DropFrom(h, vals, i) ==
    IF i > Len(vals) THEN h ELSE DropFrom(GcDrop(h, vals[i]), vals, i + 1)

DropValuesHeap(h, vals) == DropFrom(h, vals, 1)

\* truthy, lines 227-229: the pointer is made a handle, the value is read,
\* and the handle goes out of scope when the function returns
TruthyHeap(h, val) ==
    LET h1 == GcFromRaw(h, val)
        h2 == IF GcReadIsUb(h1, val) THEN [h1 EXCEPT !.ub = TRUE] ELSE h1
    IN  GcDrop(h2, val)

TruthyResult(h, val) == IsTrue(GcRead(h, val))

\* store, lines 232-237: both pointers are made handles, the Value behind
\* `from` is cloned and written over the Value behind `to`; on return the
\* locals go out of scope in reverse order, `to` first and then `from`
StoreHeap(h, from, to) ==
    LET h1 == GcFromRaw(GcFromRaw(h, from), to)
        new_val == GcRead(h1, from)
        h2 == IF GcReadIsUb(h1, from) THEN [h1 EXCEPT !.ub = TRUE] ELSE h1
        h3 == GcWrite(ValueClone(h2, new_val), to, new_val)
    IN  GcDrop(GcDrop(h3, to), from)

\* how many times address a occurs in the array vals
Occurs(vals, a) == Cardinality({i \in DOMAIN vals : vals[i] = a})

\* the pointer arrays the calling code may pass: pointers it holds, none
\* more often than it holds it
RECURSIVE SeqsUpTo(_, _)
SeqsUpTo(S, n) ==
    IF n = 0 THEN {<<>>}
    ELSE LET shorter == SeqsUpTo(S, n - 1)
         IN  shorter \cup {Append(q, x) : q \in shorter, x \in S}

OwnedArrays ==
    {vals \in SeqsUpTo({a \in Addrs : owned[a] > 0}, MaxDrop) :
        \A a \in Addrs : Occurs(vals, a) <= owned[a]}

Snapshot(fn, a, b, vals, val, ret) ==
    [fn |-> fn, a |-> a, b |-> b, vals |-> vals, val |-> val, ret |-> ret, heap |-> heap,
     globals |-> <<>>, fn_ptr |-> "null", napps |-> Len(apps)]

\* the calling code runs on while nothing undefined has happened and the
\* process has not been aborted
Running == ~heap.ub /\ ~aborted

\* alloc_undef_val, lines 174-176
AllocUndefVal ==
    /\ Running
    /\ nalloc < MaxVals
    /\ LET a == nalloc + 1
       IN  /\ heap' = GcNew(heap, a, Undefined)
           /\ nalloc' = a
           /\ owned' = [owned EXCEPT ![a] = 1]
           /\ pre' = Snapshot("alloc_undef_val", a, 0, <<>>, Undefined, FALSE)
    /\ UNCHANGED clones
    /\ UNCHANGED <<apps, aborted>>
    /\ UNCHANGED svars

\* i64_to_number, lines 186-188
I64ToNumber(n) ==
    /\ Running
    /\ nalloc < MaxVals
    /\ LET a == nalloc + 1
       IN  /\ heap' = GcNew(heap, a, Number(n))
           /\ nalloc' = a
           /\ owned' = [owned EXCEPT ![a] = 1]
           /\ pre' = Snapshot("i64_to_number", a, 0, <<>>, Number(n), FALSE)
    /\ UNCHANGED clones
    /\ UNCHANGED <<apps, aborted>>
    /\ UNCHANGED svars

\* the holder of a pointer clones the handle and keeps both: Gc::clone
CloneHandle(a) ==
    /\ Running
    /\ owned[a] > 0
    /\ \A b \in Addrs : clones[b] < MaxClones
    /\ heap' = GcClone(heap, a)
    /\ owned' = [owned EXCEPT ![a] = @ + 1]
    /\ clones' = [clones EXCEPT ![a] = @ + 1]
    /\ pre' = Snapshot("clone", a, 0, <<>>, NoValue, FALSE)
    /\ UNCHANGED nalloc
    /\ UNCHANGED <<apps, aborted>>
    /\ UNCHANGED svars

\* drop_values(vals, num_vals): the caller gives up the pointers in the array
DropValues(vals) ==
    /\ Running
    /\ vals \in OwnedArrays
    /\ heap' = DropValuesHeap(heap, vals)
    /\ owned' = [a \in Addrs |-> owned[a] - Occurs(vals, a)]
    /\ pre' = Snapshot("drop_values", 0, 0, vals, NoValue, FALSE)
    /\ UNCHANGED <<nalloc, clones>>
    /\ UNCHANGED <<apps, aborted>>
    /\ UNCHANGED svars

\* truthy(val): the caller lends a pointer it holds and keeps holding it
Truthy(val) ==
    /\ Running
    /\ owned[val] > 0
    /\ heap' = TruthyHeap(heap, val)
    /\ pre' = Snapshot("truthy", val, 0, <<>>, NoValue, TruthyResult(heap, val))
    /\ UNCHANGED <<nalloc, owned, clones>>
    /\ UNCHANGED <<apps, aborted>>
    /\ UNCHANGED svars

\* store(from, to): the caller lends two pointers it holds and keeps both
Store(from, to) ==
    /\ Running
    /\ owned[from] > 0
    /\ owned[to] > 0
    /\ heap' = StoreHeap(heap, from, to)
    /\ pre' = Snapshot("store", from, to, <<>>, GcRead(heap, from), FALSE)
    /\ UNCHANGED <<nalloc, owned, clones>>
    /\ UNCHANGED <<apps, aborted>>
    /\ UNCHANGED svars

\* ------------------------------------------------------------------------
\* Applications and closures (runtime.rs:190-224, 239-258)
\* ------------------------------------------------------------------------

\* the loops at lines 199-201, 217-219, 247-249 and 252-254: Gc::from_raw is
\* called on each pointer of the array, from the first to the last
RECURSIVE AdoptFrom(_, _, _)
AdoptFrom(h, ptrs, i) ==
    IF i > Len(ptrs) THEN h ELSE AdoptFrom(GcFromRaw(h, ptrs[i]), ptrs, i + 1)

\* the handles come out last pointer first
CollectArgsReversed(ptrs) == [i \in 1..Len(ptrs) |-> ptrs[Len(ptrs) + 1 - i]]

\* the Vec those loops build: the handle of ptrs[i] is pushed i-th
CollectArgs(ptrs) == [i \in 1..Len(ptrs) |-> ptrs[i]]

\* <&Gc<Closure>>::try_from(&Value): Ok for a Closure value, Err otherwise
NarrowToClosure(v) == v.tag = "Closure"

\* Application::new(op, args): the Call shape
ApplicationNew(op, args) == [shape |-> "Call", op |-> op, args |-> args]

\* Application::new_empty(args): the Return shape, no operator
ApplicationNewEmpty(args) == [shape |-> "Return", op |-> NoValue, args |-> args]

\* the operator is taken as it is, whatever its variant
MakeApplicationOutcomeCoerces(h, op) ==
    IF GcReadIsUb(h, op) THEN "ub" ELSE "ok"

\* make_application, lines 203-205: the operator is read and narrowed to a
\* closure handle; unwrap panics when it is none, and a panic in an
\* extern "C" function aborts the process
MakeApplicationOutcome(h, op) ==
    IF GcReadIsUb(h, op) THEN "ub"
    ELSE IF NarrowToClosure(GcRead(h, op)) THEN "ok" ELSE "panic"

\* the operator handle is forgotten instead of dropped
MakeApplicationHeapKeepsOp(h, op, args) ==
    LET h1 == AdoptFrom(h, args, 1)
        h2 == GcFromRaw(h1, op)
    IN  ValueClone(h2, GcRead(h2, op))

\* make_application, lines 198-208, when the operator is a closure: the
\* arguments are adopted, the operator is adopted, the closure handle in it
\* is cloned for the Application, and the operator handle goes out of scope
\* when the function returns
MakeApplicationHeap(h, op, args) ==
    LET h1 == AdoptFrom(h, args, 1)
        h2 == GcFromRaw(h1, op)
        h3 == ValueClone(h2, GcRead(h2, op))
    IN  GcDrop(h3, op)

\* make_return_values, lines 216-223: the arguments are adopted
MakeReturnValuesHeap(h, args) == AdoptFrom(h, args, 1)

\* the environment and the globals change places
MakeClosureHeapSwapped(h, a, c, env, globals, fn_ptr) ==
    LET h1 == AdoptFrom(AdoptFrom(h, env, 1), globals, 1)
        h2 == ClosureNew(h1, c, CollectArgs(globals), CollectArgs(env), fn_ptr)
    IN  GcNew(h2, a, ClosureValue(c))

\* make_closure, lines 247-257: the environment and the globals are adopted,
\* the Closure is put in a fresh closure cell c and a Value holding its
\* handle in a fresh cell a
MakeClosureHeap(h, a, c, env, globals, fn_ptr) ==
    LET h1 == AdoptFrom(AdoptFrom(h, env, 1), globals, 1)
        h2 == ClosureNew(h1, c, CollectArgs(env), CollectArgs(globals), fn_ptr)
    IN  GcNew(h2, a, ClosureValue(c))

\* make_application(op, args, num_args): the caller gives up the operator
\* pointer and the pointers in the array
MakeApplication(op, args) ==
    /\ Running
    /\ Len(apps) < MaxApps
    /\ owned[op] > 0
    /\ args \in OwnedArrays
    /\ Occurs(args, op) + 1 <= owned[op]
    /\ LET outcome == MakeApplicationOutcome(heap, op)
           snap(ret) == Snapshot("make_application", op, 0, args, GcRead(heap, op), ret)
       IN  \/ /\ outcome = "ub"
              /\ heap' = [heap EXCEPT !.ub = TRUE]
              /\ pre' = snap(FALSE)
              /\ UNCHANGED <<owned, apps, aborted>>
           \/ /\ outcome = "panic"
              /\ aborted' = TRUE
              /\ pre' = snap(FALSE)
              /\ UNCHANGED <<heap, owned, apps>>
           \/ /\ outcome = "ok"
              /\ heap' = MakeApplicationHeap(heap, op, args)
              /\ apps' = Append(apps, ApplicationNew(GcRead(heap, op), CollectArgs(args)))
              /\ owned' = [a \in Addrs |->
                              owned[a] - Occurs(args, a) - (IF a = op THEN 1 ELSE 0)]
              /\ pre' = snap(TRUE)
              /\ UNCHANGED aborted
    /\ UNCHANGED <<nalloc, clones>>
    /\ UNCHANGED svars

\* make_return_values(args, num_args): the caller gives up the pointers in
\* the array
MakeReturnValues(args) ==
    /\ Running
    /\ Len(apps) < MaxApps
    /\ args \in OwnedArrays
    /\ heap' = MakeReturnValuesHeap(heap, args)
    /\ apps' = Append(apps, ApplicationNewEmpty(CollectArgs(args)))
    /\ owned' = [a \in Addrs |-> owned[a] - Occurs(args, a)]
    /\ pre' = Snapshot("make_return_values", 0, 0, args, NoValue, TRUE)
    /\ UNCHANGED <<nalloc, clones, aborted>>
    /\ UNCHANGED svars

\* make_closure(env, num_envs, globals, num_globals, fn_ptr): the caller
\* gives up the pointers in both arrays and gets the pointer of the new value
MakeClosure(env, globals, fn_ptr) ==
    /\ Running
    /\ nalloc < MaxVals
    /\ heap.nclos < MaxClosures
    /\ env \in OwnedArrays
    /\ globals \in OwnedArrays
    /\ \A a \in Addrs : Occurs(env, a) + Occurs(globals, a) <= owned[a]
    /\ LET a == nalloc + 1
           c == heap.nclos + 1
       IN  /\ heap' = MakeClosureHeap(heap, a, c, env, globals, fn_ptr)
           /\ nalloc' = a
           /\ owned' = [b \in Addrs |->
                           IF b = a THEN 1 ELSE owned[b] - Occurs(env, b) - Occurs(globals, b)]
           /\ pre' = [Snapshot("make_closure", a, 0, env, ClosureValue(c), TRUE)
                         EXCEPT !.globals = globals, !.fn_ptr = fn_ptr]
    /\ UNCHANGED <<clones, apps, aborted>>
    /\ UNCHANGED svars

HeapNext ==
    \/ AllocUndefVal
    \/ \E n \in I64s : I64ToNumber(n)
    \/ \E a \in Addrs : CloneHandle(a)
    \/ \E vals \in OwnedArrays : DropValues(vals)
    \/ \E a \in Addrs : Truthy(a)
    \/ \E a, b \in Addrs : Store(a, b)
    \/ \E op \in Addrs : \E args \in OwnedArrays : MakeApplication(op, args)
    \/ \E args \in OwnedArrays : MakeReturnValues(args)
    \/ \E env \in OwnedArrays, globals \in OwnedArrays : \E fn_ptr \in FnPtrs :
           MakeClosure(env, globals, fn_ptr)

\* ------------------------------------------------------------------------
\* The scheduler as a whole
\* ------------------------------------------------------------------------

Init ==
    /\ queueOnce = "uninit"
    /\ queuesMade = 0
    /\ rxSlot = "Some"
    /\ permits = MAX_COMPILATION_TASKS
    /\ sendWaiters = <<>>
    /\ queue = <<>>
    /\ taskOnce = "uninit"
    /\ initPc = [t \in InitThreads |-> "idle"]
    /\ workers = <<>>
    /\ ncalls = 0
    /\ pc = [r \in Requests |-> "idle"]
    /\ unit = [r \in Requests |-> NoUnit]
    /\ oneshot = [r \in Requests |-> Empty]
    /\ result = [r \in Requests |-> Empty]
    /\ fired = [r \in Requests |-> 0]
    /\ dequeues = [r \in Requests |-> 0]
    /\ pending = <<>>
    /\ contexts = 0
    /\ installs = 0
    /\ symtab = {}
    /\ HeapInit

Next ==
    \/ \E t \in InitThreads : InitCompilerCall(t)
    \/ \E t \in InitThreads : InitCompilerSpawn(t)
    \/ \E t \in InitThreads : InitCompilerResume(t)
    \/ \E r \in Requests : \E u \in Units(r) : CompileCpsCall(r, u)
    \/ \E r \in Requests : CompileCpsSend(r)
    \/ \E r \in Requests : CompileCpsReturn(r)
    \/ \E w \in DOMAIN workers : WorkerTakeReceiver(w)
    \/ \E w \in DOMAIN workers : WorkerSetup(w)
    \/ \E w \in DOMAIN workers : WorkerInstallRuntime(w)
    \/ \E w \in DOMAIN workers : WorkerRecv(w)
    \/ \E w \in DOMAIN workers : WorkerLower(w)

Spec == Init /\ [][Next]_vars

\* Generated code calling the runtime functions; the scheduler is not involved
HeapSpec == Init /\ [][HeapNext]_vars

\* the worker numbered w, wherever it is in compilation_task
Worker(w) ==
    /\ w \in DOMAIN workers
    /\ \/ WorkerTakeReceiver(w)
       \/ WorkerSetup(w)
       \/ WorkerInstallRuntime(w)
       \/ WorkerRecv(w)
       \/ WorkerLower(w)

\* The program once init_compiler has been called and has returned: the
\* worker is spawned and has not run yet, nothing has been submitted (the
\* state Spec is in after InitCompilerCall, InitCompilerSpawn and the other
\* threads' InitCompilerCall)
Started ==
    /\ queueOnce = "uninit"
    /\ queuesMade = 0
    /\ rxSlot = "Some"
    /\ permits = MAX_COMPILATION_TASKS
    /\ sendWaiters = <<>>
    /\ queue = <<>>
    /\ taskOnce = "done"
    /\ initPc = [t \in InitThreads |-> "returned"]
    /\ workers = <<NewWorker>>
    /\ ncalls = 0
    /\ pc = [r \in Requests |-> "idle"]
    /\ unit = [r \in Requests |-> NoUnit]
    /\ oneshot = [r \in Requests |-> Empty]
    /\ result = [r \in Requests |-> Empty]
    /\ fired = [r \in Requests |-> 0]
    /\ dequeues = [r \in Requests |-> 0]
    /\ pending = <<>>
    /\ contexts = 0
    /\ installs = 0
    /\ symtab = {}
    /\ HeapInit

Submit ==
    \/ \E r \in Requests : \E u \in Units(r) : CompileCpsCall(r, u)
    \/ \E r \in Requests : CompileCpsSend(r)
    \/ \E r \in Requests : CompileCpsReturn(r)

Serve ==
    \/ \E w \in DOMAIN workers : WorkerTakeReceiver(w)
    \/ \E w \in DOMAIN workers : WorkerSetup(w)
    \/ \E w \in DOMAIN workers : WorkerInstallRuntime(w)
    \/ \E w \in DOMAIN workers : WorkerRecv(w)
    \/ \E w \in DOMAIN workers : WorkerLower(w)

\* Scheduling: the blocking thread of the spawned worker runs, and the tokio
\* runtime polls a compile_cps future that can go on. Whether compile_cps is
\* called at all is up to the program.
Fairness ==
    /\ \A r \in Requests : WF_vars(CompileCpsSend(r) \/ CompileCpsReturn(r))
    /\ WF_vars(Worker(1))

FairSpec == Started /\ [][Submit \/ Serve]_vars /\ Fairness

\* The started program with submitters that may stop waiting
Cancel == \E r \in Requests : Abandon(r)

CancelSpec == Started /\ [][Submit \/ Serve \/ Cancel]_vars /\ Fairness

\* The program that makes all its calls of compile_cps first and then calls
\* init_compiler, once, from one thread
LateInitNext ==
    \/ ncalls = NumRequests /\ InitCompilerCall(1)
    \/ InitCompilerSpawn(1)
    \/ \E r \in Requests : \E u \in Units(r) : CompileCpsCall(r, u)
    \/ \E r \in Requests : CompileCpsSend(r)
    \/ \E r \in Requests : CompileCpsReturn(r)
    \/ Serve

\* the thread that is inside init_compiler runs on; whether init_compiler is
\* called at all is up to the program
InitFairness == WF_vars(InitCompilerSpawn(1))

LateInitSpec == Init /\ [][LateInitNext]_vars /\ Fairness /\ InitFairness

\* ------------------------------------------------------------------------
\* Properties of the scheduler
\* ------------------------------------------------------------------------

Called(r) == pc[r] # "idle"

Answered(r) == oneshot[r].kind \in {"Ok", "Err"}

Lowering(r) ==
    \E w \in DOMAIN workers :
        workers[w].pc = "lowering" /\ workers[w].task.completion_tx = r

WorkerInLoop(w) == workers[w].pc \in {"recv", "lowering"}

\* C1: every request gets exactly one result, once: its completion signal
\* fires at most once, the value on it was produced from its own compilation
\* unit, its task is dequeued at most once, and a compile_cps call that has
\* returned took the one value its own signal carried.
C1_ExactlyOneResult ==
    \A r \in Requests :
        /\ fired[r] <= 1
        /\ dequeues[r] <= 1
        /\ Answered(r) => (fired[r] = 1 /\ dequeues[r] = 1 /\ oneshot[r].of = unit[r].src
                           /\ unit[r].src = r)
        /\ pc[r] = "done" => (fired[r] = 1 /\ result[r] = oneshot[r] /\ result[r].of = r)
        /\ pc[r] # "done" => result[r] = Empty

\* several requests, more than the channel holds, have all returned
C1_Witness ==
    /\ ncalls > MAX_COMPILATION_TASKS
    /\ \A r \in Requests : pc[r] = "done" /\ fired[r] = 1

Returned(r) == pc[r] = "done" /\ result[r].kind \in {"Ok", "Err"}

\* C2: under fair scheduling of the started worker and of the submitters,
\* every call of compile_cps eventually returns, with a Closure or with the
\* builder's error: at any time, a moment comes at which every call made so
\* far has returned (a call once made stays made, so this gives
\* Called(r) ~> Returned(r) for every request r).
C2_EventuallyReturns ==
    []<>(\A r \in Requests : Called(r) => Returned(r))

\* more calls than the channel holds were made and all have returned, one
\* of them with a compilation failure
C2_Witness ==
    /\ ncalls > MAX_COMPILATION_TASKS
    /\ \A r \in Requests : pc[r] = "done"
    /\ \E r \in Requests : result[r].kind = "Err"

HoldsPermit == {r \in Requests : pc[r] = "permit"}

C3_Bounded ==
    /\ Len(queue) <= MAX_COMPILATION_TASKS
    /\ permits >= 0
    /\ queueOnce = "done" =>
           Len(queue) + Cardinality(HoldsPermit) + permits = MAX_COMPILATION_TASKS
    /\ \A r \in Requests : pc[r] = "blocked" => permits = 0
    /\ \A r \in Requests : pc[r] = "blocked" <=> (\E i \in DOMAIN sendWaiters : sendWaiters[i] = r)

C3_Step ==
    \A r \in Requests :
        \* a call that finds the channel full suspends
        /\ (pc[r] = "idle" /\ pc'[r] # "idle" /\ Len(queue) = MAX_COMPILATION_TASKS)
               => pc'[r] = "blocked"
        \* a suspended sender goes on only when the worker has dequeued a task
        /\ (pc[r] = "blocked" /\ pc'[r] # "blocked")
               => (queue # <<>> /\ queue' = Tail(queue) /\ pc'[r] = "permit")
        \* and a task enters the channel only from a sender that holds a slot
        /\ (pc[r] # "await" /\ pc'[r] = "await") => pc[r] = "permit"

\* C3: the channel never holds more than MAX_COMPILATION_TASKS tasks; a
\* submitter that calls compile_cps while it is full is suspended, and its
\* task is admitted only after the worker has dequeued a task and freed a slot.
C3_Backpressure == []C3_Bounded /\ [][C3_Step]_vars

\* the channel is full and a submitter is suspended behind it
C3_Witness ==
    /\ Len(queue) = MAX_COMPILATION_TASKS
    /\ sendWaiters # <<>>

\* C4: the worker answers requests in exactly the order in which their tasks
\* were admitted to the channel: each answer goes to the oldest admitted
\* request that has not been answered yet (so a request admitted before
\* another one was even submitted is answered first).
C4_AdmissionOrder ==
    [][\A r \in Requests :
          fired'[r] # fired[r] => (pending # <<>> /\ r = Head(pending))]_vars

\* two requests were admitted in the opposite order of their calls, the first
\* admitted is being lowered, and an earlier request has been answered
C4_Witness ==
    /\ Len(pending) >= 2
    /\ pending[1] > pending[2]
    /\ Lowering(pending[1])
    /\ \E r \in Requests : fired[r] = 1

\* C5: however many threads call init_compiler, one compilation_task is
\* spawned, no worker finds the receiver already taken, and once a call has
\* returned there is exactly one worker.
C5_OneWorker ==
    /\ Len(workers) <= 1
    /\ \A w \in DOMAIN workers : workers[w].pc # "panicked"
    /\ (\E t \in InitThreads : initPc[t] = "returned") => Len(workers) = 1
    /\ rxSlot = "None" =>
           Cardinality({w \in DOMAIN workers : workers[w].pc # "start"}) = 1

\* every thread has called init_compiler and returned, and the one worker
\* has taken the receiver and is in its loop
C5_Witness ==
    /\ \A t \in InitThreads : initPc[t] = "returned"
    /\ Len(workers) = 1
    /\ rxSlot = "None"
    /\ WorkerInLoop(1)

\* C6: a compilation failure is returned as the Err of exactly the request
\* whose unit failed: a request is answered Err iff its own unit is the
\* malformed one, no dequeued task is left without an answer once the
\* worker has moved on, and after a failure the worker is still in its loop.
C6_FailureIsLocal ==
    /\ \A r \in Requests :
          /\ Answered(r) => (oneshot[r].kind = "Err" <=> ~unit[r].wellFormed)
          /\ pc[r] = "done" => (result[r].kind = "Err" <=> ~unit[r].wellFormed)
          /\ (dequeues[r] > 0 /\ ~Lowering(r)) => Answered(r)
    /\ (\E r \in Requests : Answered(r) /\ oneshot[r].kind = "Err")
          => \A w \in DOMAIN workers : WorkerInLoop(w)

\* one request has returned Err, another one has returned Ok, and the worker
\* is lowering a further request
C6_Witness ==
    /\ \E r \in Requests : pc[r] = "done" /\ result[r].kind = "Err"
    /\ \E r \in Requests : pc[r] = "done" /\ result[r].kind = "Ok"
    /\ \E r \in Requests : Lowering(r) /\ fired[r] = 0

\* ------------------------------------------------------------------------
\* Properties of the runtime functions
\* ------------------------------------------------------------------------

\* C7: store(from, to) takes ownership of neither pointer: after the call the
\* reference counts of both values are what they were before it, and neither
\* value has been freed.
C7_StoreKeepsOwnership ==
    pre.fn = "store" =>
        /\ heap.rc[pre.a] = pre.heap.rc[pre.a]
        /\ heap.rc[pre.b] = pre.heap.rc[pre.b]
        /\ heap.live[pre.a] = "live"
        /\ heap.live[pre.b] = "live"

\* C8: truthy(val) borrows the pointer: after the call the reference count
\* of the value is what it was before it and the value has not been freed.
C8_TruthyBorrows ==
    pre.fn = "truthy" =>
        /\ heap.rc[pre.a] = pre.heap.rc[pre.a]
        /\ heap.live[pre.a] = "live"

\* C9: whatever allocations, clones, adoptions and releases happen to a
\* value, its reference count never goes below zero, it is freed at most
\* once, and it is freed exactly when as many handles have been dropped as
\* were made by allocation and clone; drop_values(vals, n) takes one
\* reference from a value for each time its pointer is in the array (and,
\* when it frees a closure, those that the closure held).
C9_RefcountConservation ==
    /\ \A a \in Addrs :
          /\ heap.rc[a] >= 0
          /\ heap.frees[a] <= 1
          /\ a <= nalloc => (heap.live[a] = "freed" <=> drops[a] = 1 + clones[a])
    /\ ~heap.ub
    /\ (pre.fn = "drop_values" /\ heap.clive = pre.heap.clive) =>
          \A a \in Addrs : heap.rc[a] = pre.heap.rc[a] - Occurs(pre.vals, a)

\* C10: after store(from, to) the cell behind `to` is still there and holds
\* the Value that `from` held when store was called, and a store changes the
\* Value of no cell but its `to` (so a later write to `from` leaves it alone).
C10_StoreCopies ==
    pre.fn = "store" =>
        /\ heap.live[pre.b] = "live"
        /\ heap.content[pre.b] = pre.val
        /\ \A c \in Addrs : c # pre.b => heap.content[c] = pre.heap.content[c]

\* the Application the last call returned
LastApp == apps[Len(apps)]

\* C11: make_application on an operator whose Value is not a Closure, of
\* whatever variant and with whatever arguments, does not return: the
\* process is aborted and no Application has been made; and no Application
\* in Call shape ever has an operator that is not a Closure.
C11_NonClosureOperatorFails ==
    /\ \A i \in DOMAIN apps : apps[i].shape = "Call" => apps[i].op.tag = "Closure"
    /\ (pre.fn = "make_application" /\ pre.heap.live[pre.a] = "live"
            /\ pre.val.tag # "Closure")
          => (aborted /\ ~pre.ret /\ Len(apps) = pre.napps /\ heap = pre.heap)

\* make_application was called on a Number with two arguments and the
\* process was aborted
C11_Witness ==
    /\ pre.fn = "make_application"
    /\ pre.heap.live[pre.a] = "live"
    /\ pre.val.tag = "Number"
    /\ Len(pre.vals) = 2
    /\ aborted
    /\ apps = <<>>

\* C12: make_return_values returns for every array of pointers, the empty
\* one included: one more Application exists, it has the Return shape and no
\* operator, its value list is the input array, pointer for pointer in the
\* same order, and the reference count of every value is what it was (each
\* pointer was adopted once and its handle is in the Application).
C12_ReturnValuesSucceeds ==
    pre.fn = "make_return_values" =>
        /\ pre.ret
        /\ ~aborted
        /\ heap.ub = pre.heap.ub
        /\ Len(apps) = pre.napps + 1
        /\ LastApp.shape = "Return"
        /\ LastApp.op = NoValue
        /\ LastApp.args = pre.vals
        /\ \A a \in Addrs : heap.rc[a] = pre.heap.rc[a] /\ heap.live[a] = pre.heap.live[a]

\* make_return_values was called with two different pointers and returned
\* them in that order
C12_Witness ==
    /\ pre.fn = "make_return_values"
    /\ Len(pre.vals) = 2
    /\ pre.vals[1] # pre.vals[2]
    /\ LastApp.shape = "Return"
    /\ LastApp.args = pre.vals

\* C13: make_closure returns the pointer of a newly allocated value with one
\* reference, which holds a Closure with one reference whose environment is
\* the env array and whose globals are the globals array, each in input
\* order, and whose entry point is fn_ptr; the reference count of every
\* other value, those in the arrays included, is what it was.
C13_MakeClosureCaptures ==
    pre.fn = "make_closure" =>
        /\ pre.heap.live[pre.a] = "none"
        /\ heap.live[pre.a] = "live"
        /\ heap.rc[pre.a] = 1
        /\ owned[pre.a] = 1
        /\ heap.content[pre.a].tag = "Closure"
        /\ LET c == heap.content[pre.a].n
           IN  /\ pre.heap.clive[c] = "none"
               /\ heap.clive[c] = "live"
               /\ heap.crc[c] = 1
               /\ heap.env[c] = pre.vals
               /\ heap.globals[c] = pre.globals
               /\ heap.fn_ptr[c] = pre.fn_ptr
        /\ \A b \in Addrs \ {pre.a} :
              heap.rc[b] = pre.heap.rc[b] /\ heap.live[b] = pre.heap.live[b]
        /\ heap.ub = pre.heap.ub

\* a closure was made over an environment of two different values and one
\* global
C13_Witness ==
    /\ pre.fn = "make_closure"
    /\ Len(pre.vals) = 2
    /\ pre.vals[1] # pre.vals[2]
    /\ Len(pre.globals) = 1
    /\ heap.env[heap.content[pre.a].n] = pre.vals
    /\ heap.globals[heap.content[pre.a].n] = pre.globals
    /\ pre.fn_ptr \in FnPtrs

\* make_application returned an Application
MadeApplication == pre.fn = "make_application" /\ pre.ret /\ ~heap.ub

\* C19 as stated: after a successful make_application the operator Value
\* has one reference less, the Closure in it one more, every argument has
\* the references it had, and the Application holds the arguments in input
\* order.
C19_AsStated ==
    MadeApplication =>
        /\ heap.rc[pre.a] = pre.heap.rc[pre.a] - 1
        /\ heap.crc[pre.val.n] = pre.heap.crc[pre.val.n] + 1
        /\ \A i \in DOMAIN pre.vals : heap.rc[pre.vals[i]] = pre.heap.rc[pre.vals[i]]
        /\ LastApp.args = pre.vals

\* C19: after a successful make_application the operator Value has one
\* reference less (also when it is one of the arguments) and is freed when
\* that was its last one; the Closure in it has one reference more when the
\* operator Value is still there and as many as before when the call freed
\* it (the Value's own closure handle went with it); every other value has
\* the references it had; and the Application holds the closure and the
\* arguments in input order.
C19_ConsumesOperator ==
    MadeApplication =>
        /\ heap.rc[pre.a] = pre.heap.rc[pre.a] - 1
        /\ heap.live[pre.a] = (IF pre.heap.rc[pre.a] = 1 THEN "freed" ELSE "live")
        /\ heap.crc[pre.val.n] =
              pre.heap.crc[pre.val.n] + (IF heap.live[pre.a] = "live" THEN 1 ELSE 0)
        /\ heap.clive[pre.val.n] = "live"
        /\ \A b \in Addrs \ {pre.a} :
              heap.rc[b] = pre.heap.rc[b] /\ heap.live[b] = pre.heap.live[b]
        /\ LastApp.shape = "Call"
        /\ LastApp.op = pre.val
        /\ LastApp.args = pre.vals

\* a closure with a single reference was applied to two different arguments:
\* the call freed the operator Value and the Closure lives on in the
\* Application with the one reference it had
C19_Witness ==
    /\ MadeApplication
    /\ pre.heap.rc[pre.a] = 1
    /\ heap.live[pre.a] = "freed"
    /\ heap.crc[pre.val.n] = 1
    /\ Len(pre.vals) = 2
    /\ pre.vals[1] # pre.vals[2]
    /\ LastApp.args = pre.vals

\* ------------------------------------------------------------------------
\* Properties of the worker
\* ------------------------------------------------------------------------

\* the units that have been dequeued and whose outcome has not been sent
InLowering == {r \in Requests : dequeues[r] > 0 /\ fired[r] = 0}

\* C14: at most one unit is being lowered at any time, by at most one
\* worker; one context (with its module, engine and builder) is created at
\* most, it is a local of the one worker that is past its setup, and that
\* worker is the one that lowers.
C14_OneLoweringOneContext ==
    /\ Cardinality(InLowering) <= 1
    /\ Cardinality({w \in DOMAIN workers : workers[w].pc = "lowering"}) <= 1
    /\ \A r \in Requests : Lowering(r) <=> r \in InLowering
    /\ contexts <= 1
    /\ Cardinality({w \in DOMAIN workers : workers[w].ctx # 0}) = contexts
    /\ \A w \in DOMAIN workers :
          workers[w].pc \in {"install", "recv", "lowering"} => workers[w].ctx = 1

\* the worker lowers a unit in its context while two more tasks wait in the
\* channel and an earlier unit has been lowered
C14_Witness ==
    /\ contexts = 1
    /\ \E r \in Requests : Lowering(r)
    /\ Len(queue) >= 2
    /\ \E r \in Requests : fired[r] = 1

Abandoned(r) == pc[r] = "abandoned"

QueueTxs == [i \in DOMAIN queue |-> queue[i].completion_tx]

C15_Safe ==
    /\ \A r \in Requests :
          Abandoned(r) =>
              \* the task stays in the channel until the worker dequeues it
              /\ dequeues[r] = 0 => (\E i \in DOMAIN queue : QueueTxs[i] = r)
              \* once dequeued it is lowered and its outcome is sent, once
              /\ (dequeues[r] > 0 /\ ~Lowering(r)) => fired[r] = 1
              /\ fired[r] <= 1
              \* and the outcome goes nowhere
              /\ oneshot[r] = Closed
              /\ result[r] = Empty
    /\ \A w \in DOMAIN workers : workers[w].pc \notin {"panicked", "exited"}

\* C15: a request whose submitter has dropped the completion receiver after
\* admission stays in the channel, is dequeued and lowered like any other,
\* and under fair scheduling of the worker its outcome is eventually sent;
\* the send fails silently, nobody gets the outcome, and the worker neither
\* panics nor leaves its loop.
C15_NoCancellation ==
    /\ []C15_Safe
    /\ []<>(\A r \in Requests : Abandoned(r) => fired[r] = 1)

\* the outcome of an abandoned request was sent and dropped, and the worker
\* is lowering the next request
C15_Witness ==
    /\ \E r \in Requests : Abandoned(r) /\ fired[r] = 1 /\ oneshot[r] = Closed
    /\ \E r \in Requests : ~Abandoned(r) /\ Lowering(r)

\* C16: a worker that has reached its loop stays in it: it is at
\* blocking_recv or lowering a unit in every later state, and no worker has
\* panicked or returned, whether requests succeeded, failed or were abandoned.
C16_LoopNeverExits ==
    /\ [](\A w \in DOMAIN workers : workers[w].pc \notin {"panicked", "exited"})
    /\ [][\A w \in DOMAIN workers :
             WorkerInLoop(w) => workers'[w].pc \in {"recv", "lowering"}]_vars

\* the worker waits at blocking_recv on an empty channel after a success, a
\* compilation failure and an abandoned request
C16_Witness ==
    /\ workers[1].pc = "recv"
    /\ queue = <<>>
    /\ \E r \in Requests : fired[r] = 1 /\ oneshot[r].kind = "Ok"
    /\ \E r \in Requests : fired[r] = 1 /\ oneshot[r].kind = "Err"
    /\ \E r \in Requests : fired[r] = 1 /\ Abandoned(r)

SymbolNames == {e.name : e \in symtab}

\* C17: install_runtime runs at most once, before the worker enters its
\* loop; after it the module has exactly the eight runtime functions, each
\* mapped to the native function of its name; and no task is dequeued
\* before it has run.
C17_InstalledOnceBeforeLoop ==
    /\ installs <= 1
    /\ installs = 0 <=> symtab = {}
    /\ installs = 1 =>
          /\ SymbolNames = {"alloc_undef_val", "drop_values", "i64_to_number",
                            "make_application", "make_return_values", "truthy",
                            "store", "make_closure"}
          /\ Cardinality(symtab) = 8
          /\ \A e \in symtab : e.target = e.name
    /\ \A w \in DOMAIN workers : WorkerInLoop(w) => installs = 1
    /\ \A r \in Requests : dequeues[r] > 0 => installs = 1

\* tasks were admitted while install_runtime had not run, and the worker is
\* now lowering one with the eight functions installed
C17_Witness ==
    /\ installs = 1
    /\ Cardinality(symtab) = 8
    /\ \E r \in Requests : Lowering(r)
    /\ Len(queue) = MAX_COMPILATION_TASKS - 1

\* C18: each function is registered with the signature of the native
\* function it is mapped to: as many parameters, of the same kinds in the
\* same order, and the same kind of result.
C18_SignaturesMatch ==
    \A e \in symtab : [params |-> e.params, ret |-> e.ret] = NativeSignature(e.target)

\* ------------------------------------------------------------------------
\* Properties of the queue before init_compiler
\* ------------------------------------------------------------------------

\* the request the worker is lowering, if any
InFlight ==
    IF \E w \in DOMAIN workers : workers[w].pc = "lowering"
    THEN <<(CHOOSE w \in DOMAIN workers : workers[w].pc = "lowering")>>
    ELSE <<>>

InFlightTxs == [i \in DOMAIN InFlight |-> workers[InFlight[i]].task.completion_tx]

C20_Safe ==
    \* one queue, made at the first use by a call or by the worker
    /\ queuesMade <= 1
    /\ queueOnce = "done" <=> queuesMade = 1
    /\ (ncalls > 0 \/ \E w \in DOMAIN workers : workers[w].pc # "start") => queuesMade = 1
    \* the admitted requests that have no answer yet are the one the worker
    \* lowers and those in the channel, in admission order: none is lost
    /\ pending = InFlightTxs \o QueueTxs
    /\ \A r \in Requests : (pc[r] = "await" /\ ~Answered(r)) =>
          \E i \in DOMAIN pending : pending[i] = r
    \* without init_compiler there is no worker, and without a worker no
    \* answer: the submitters stay suspended
    /\ taskOnce = "uninit" => workers = <<>>
    /\ workers = <<>> =>
          \A r \in Requests : ~Answered(r) /\ pc[r] # "done" /\ dequeues[r] = 0

\* C20: the queue is made once, by whoever uses it first, and calls made
\* before init_compiler are admitted up to the capacity and kept in
\* admission order; their callers stay suspended while there is no worker,
\* nobody is answered if init_compiler is never called, and once it is
\* called every call made before it eventually returns.
C20_QueueSharedBeforeInit ==
    /\ []C20_Safe
    /\ (taskOnce # "uninit") ~> (\A r \in Requests : Called(r) => Returned(r))

\* more calls than the channel holds were made before init_compiler, and
\* all of them have returned
C20_Witness ==
    /\ ncalls > MAX_COMPILATION_TASKS
    /\ \A r \in Requests : pc[r] = "done" /\ dequeues[r] = 1
    /\ queuesMade = 1
    /\ taskOnce = "done"

====
